---- MODULE Spec2Model ----
(***************************************************************************)
(* IPTV relay: the sanitizers, the Resource Locator and the per-request    *)
(* lifecycle of the /stream routes, in each deployment variant found in    *)
(* the repository (src/api/index.js, src/unnamed/part_000, the three       *)
(* programs in src/unnamed/part_001 and src/unnamed/part_002).             *)
(*                                                                         *)
(* Strings are sequences of one-character strings.  A missing value        *)
(* (undefined) and a null result are the one-element sequences UNDEF and   *)
(* NULL, whose element is no character.                                    *)
(***************************************************************************)
EXTENDS Integers, Sequences, FiniteSets, TLC

VARIABLES variant, cfg, upHeaders, rq, crashed, fn, mc, ui, ctl

vars == <<variant, cfg, upHeaders, rq, crashed, fn, mc, ui, ctl>>

(***************************************************************************)
(* Bounds                                                                  *)
(***************************************************************************)
\* longest id enumerated exhaustively over IdAlphabet
MaxShortLen == 2
\* body chunks relayed per request
MaxChunks == 2
MaxFollowed == 1

(***************************************************************************)
(* Characters and strings                                                  *)
(***************************************************************************)
UNDEF == <<"undefined">>
NULL == <<"null">>

UpperSeq == <<"A", "I", "K", "M", "P", "S", "T", "U", "V">>
LowerSeq == <<"a", "i", "k", "m", "p", "s", "t", "u", "v">>

LowerChars == {LowerSeq[i] : i \in 1..Len(LowerSeq)} \cup {"e", "x"}
UpperChars == {UpperSeq[i] : i \in 1..Len(UpperSeq)}
DigitChars == {"3", "4", "7", "8"}

\* the class [a-zA-Z0-9_-] of sanitizeId's regular expression
IdChars == LowerChars \cup UpperChars \cup DigitChars \cup {"_", "-"}

\* the class [a-z0-9] of sanitizeExtension's regular expression
ExtChars == LowerChars \cup DigitChars

\* String.prototype.toLowerCase, one character
ToLowerChar(c) ==
    IF c \in UpperChars
    THEN LowerSeq[CHOOSE i \in 1..Len(UpperSeq) : UpperSeq[i] = c]
    ELSE c

ToLowerCase(s) == [i \in 1..Len(s) |-> ToLowerChar(s[i])]

\* s.replace(/[^class]/g, '')
StripOutside(s, class) == SelectSeq(s, LAMBDA c : c \in class)

\* JavaScript falsiness of a string-or-missing value
Falsy(s) == s = UNDEF \/ s = <<>>

Rep(c, n) == [i \in 1..n |-> c]

RECURSIVE StringsUpTo(_, _)
StringsUpTo(alphabet, n) ==
    IF n = 0 THEN {<<>>}
    ELSE LET shorter == StringsUpTo(alphabet, n - 1)
         IN  shorter \cup {Append(s, c) : s \in shorter, c \in alphabet}

(***************************************************************************)
(* Sanitizers                                                              *)
(***************************************************************************)
MaxIdLen == 50

mp4 == <<"m", "p", "4">>
mkv == <<"m", "k", "v">>
avi == <<"a", "v", "i">>
m3u8 == <<"m", "3", "u", "8">>
ts == <<"t", "s">>

allowed == {mp4, mkv, avi, m3u8, ts}

\* a sanitizeId that forgets the length check
sanitizeId_nolen(id) ==
    IF Falsy(id) THEN NULL
    ELSE LET clean == StripOutside(id, IdChars)
         IN  IF Len(clean) > 0 THEN clean ELSE NULL

sanitizeId(id) ==
    IF Falsy(id) THEN NULL
    ELSE LET clean == StripOutside(id, IdChars)
         IN  IF Len(clean) > 0 /\ Len(clean) <= MaxIdLen THEN clean ELSE NULL

\* a sanitizeExtension that forgets the allow-list
sanitizeExtension_any(ext) ==
    LET clean == StripOutside(ToLowerCase(IF Falsy(ext) THEN mp4 ELSE ext), ExtChars)
    IN  clean

sanitizeExtension(ext) ==
    LET clean == StripOutside(ToLowerCase(IF Falsy(ext) THEN mp4 ELSE ext), ExtChars)
    IN  IF clean \in allowed THEN clean ELSE mp4

(***************************************************************************)
(* Provider configuration and URLs                                         *)
(***************************************************************************)
Variants == {"idx", "p0", "p1a", "p1b", "p1c", "p2"}

USER == "user"
PASS == "pass"

Url(scheme, host, port, dirs, file) ==
    [scheme |-> scheme, host |-> host, port |-> port, dirs |-> dirs, file |-> file]

\* the last path segment `${id}.${ext}`
File(id, ext) == [id |-> id, ext |-> ext]

NoUrl == Url("", "", "", <<>>, File(<<>>, <<>>))

\* IPTV_CONFIG, serverUrl already stripped of trailing slashes
IPTV_CONFIG(scheme) ==
    [serverUrl |-> Url(scheme, "provider", "", <<>>, File(<<>>, <<>>)),
     username |-> USER, password |-> PASS]

\* an environment variable that is not set, as a template literal renders it
Missing == "undefined"

\* new URL(url) succeeds
WellFormed(url) == url.scheme \in {"http", "https"} /\ url.host # ""

\* IPTV_USERNAME is not set
ConfigWithoutUser == [IPTV_CONFIG("http") EXCEPT !.username = Missing]

\* IPTV_SERVER_URL is set to a host name without a scheme
ConfigWithoutScheme == [IPTV_CONFIG("http") EXCEPT !.serverUrl.scheme = ""]

Configs ==
    {IPTV_CONFIG(s) : s \in {"http", "https"}}
        \cup {ConfigWithoutUser, ConfigWithoutScheme}

\* serverUrl && username && password
isConfigValid(c) ==
    c.serverUrl.host # "" /\ c.username # Missing /\ c.password # Missing

\* validateConfig() returns instead of calling process.exit(1)
validateConfig(c) == isConfigValid(c) /\ WellFormed(c.serverUrl)

\* the process gets as far as serving requests.  The production server
\* calls validateConfig(), part_002 only tests that the three values are
\* set, and the other programs compute isConfigValid and start regardless.
Starts(v, c) ==
    CASE v = "p1c" -> validateConfig(c)
      [] v = "p2" -> isConfigValid(c)
      [] OTHER -> TRUE

\* `${serverUrl}/kind/${username}/${password}/${id}.${ext}`
UnderServerUrl(c, kind, id, ext) ==
    [c.serverUrl EXCEPT !.dirs = <<kind, c.username, c.password>>,
                        !.file = File(id, ext)]

\* url.replace(/^http:/, 'https:')
toHttps(url) ==
    IF url.scheme = "http" THEN [url EXCEPT !.scheme = "https"] ELSE url

\* the builders of src/api/index.js, part_001 (first program) and part_002
buildUrlRaw(c, kind, streamId, extension) ==
    UnderServerUrl(c, kind, streamId, extension)

\* the builders of part_000 and part_001 (second and third program)
buildUrlSanitizing(c, kind, streamId, extension) ==
    UnderServerUrl(c, kind, sanitizeId(streamId), sanitizeExtension(extension))

\* the programs whose builders and live route sanitize the id a second time
ResanitizingVariants == {"p0", "p1b", "p1c"}

buildMovieUrl(v, c, streamId, extension) ==
    IF v \in ResanitizingVariants
    THEN buildUrlSanitizing(c, "movie", streamId, extension)
    ELSE buildUrlRaw(c, "movie", streamId, extension)

buildSeriesUrl(v, c, episodeId, extension) ==
    IF v \in ResanitizingVariants
    THEN buildUrlSanitizing(c, "series", episodeId, extension)
    ELSE buildUrlRaw(c, "series", episodeId, extension)

\* new URL(serverUrl); port = '8080'; `${origin}/live/${username}/${password}/${id}.m3u8`
\* (part_002 keeps serverUrl as it is)
buildLiveUrl(v, c, streamId) ==
    IF v = "p2"
    THEN UnderServerUrl(c, "live", streamId, m3u8)
    ELSE [UnderServerUrl(c, "live",
                         IF v \in ResanitizingVariants THEN sanitizeId(streamId) ELSE streamId,
                         m3u8)
          EXCEPT !.port = "8080"]

\* the provider credentials that occur in a URL
CredsIn(url) == {url.dirs[i] : i \in 1..Len(url.dirs)} \cap {USER, PASS}

(***************************************************************************)
(* Raw segment targets                                                     *)
(***************************************************************************)
GoodSegUrl == <<"http", ":", "//", "cdn", "/", "seg.ts">>
BadSegUrl == <<"not-a-url">>

\* req.query.url when the query string repeats the parameter (?url=..&url=..):
\* the query parser hands the handler an array, not a string
RepeatedSegUrl == <<"[", "not-a-url", ",", "not-a-url", "]">>

IsArray(s) == Len(s) > 0 /\ s[1] = "["

\* new URL(s) succeeds: s starts with a scheme and a colon
ParsesAsUrl(s) ==
    Len(s) >= 2 /\ s[1] \in {"http", "https"} /\ s[2] = ":"

(***************************************************************************)
(* Per-variant route tables                                                *)
(***************************************************************************)
Reqs == {"r1"}

\* two requests in flight at once, each for its own id
ReqsIso == {"r1", "r2"}

OwnId(r) == IF r = "r1" THEN <<"7">> ELSE <<"8">>

\* the /stream routes each program registers
RoutesOf(v) ==
    IF v = "p1c" THEN {"movie", "series", "live", "segment"}
    ELSE {"movie", "series", "live"}

\* the programs whose movie and series routes answer with res.redirect
VodRedirects(v) == v \in {"idx", "p0"}

\* the route path constrains the id to \d+
DigitsOnlyRoute(v, route) == v # "p2" /\ route \in {"movie", "live"}

\* Express matches :id against one or more characters other than '/'
RouteMatches(v, route, rawId) ==
    \/ route = "segment"
    \/ /\ ~Falsy(rawId)
       /\ \A i \in 1..Len(rawId) : rawId[i] # "/"
       /\ DigitsOnlyRoute(v, route) => \A i \in 1..Len(rawId) : rawId[i] \in DigitChars

\* the handler registers response.data.on('error', ...)
HasErrorListener(v, route) == v \in {"p1c", "p2"} /\ route \in {"movie", "series"}

\* axios resolves: validateStatus s < 500 on the VOD routes, the default
\* (2xx) on the segment route
\* a validateStatus that accepts every status
validateStatus_any(route, s) == s >= 0

validateStatus(route, s) ==
    IF route = "segment" THEN s >= 200 /\ s < 300 ELSE s < 500

(***************************************************************************)
(* Headers                                                                 *)
(***************************************************************************)
\* the headers an upstream response may carry
HeaderNames ==
    {"content-type", "content-length", "content-range", "accept-ranges",
     "cache-control", "last-modified", "etag", "server"}

\* the headers of an outbound response that the handlers touch
ResHeaderNames == HeaderNames \cup {"access-control-allow-origin"}

\* response.headers[h] of an upstream that sends the headers in up
UpValue(up, h) ==
    IF h \notin up THEN ""
    ELSE CASE h = "content-type" -> "video/x-matroska"
           [] h = "content-length" -> "1000"
           [] h = "content-range" -> "bytes 1000-1999/5000"
           [] h = "accept-ranges" -> "none"
           [] h = "cache-control" -> "max-age=60"
           [] h = "last-modified" -> "yesterday"
           [] h = "etag" -> "v1"
           [] h = "server" -> "nginx"

NoHeaders == [h \in ResHeaderNames |-> ""]

\* a forEach over every header the upstream sent
ForwardList_all(v, route) == HeaderNames

\* the list each handler runs forEach over
ForwardList(v, route) ==
    LET three == {"content-length", "content-range", "accept-ranges"}
        rich == {"cache-control", "last-modified", "etag"}
    IN  CASE v = "p2" /\ route = "movie" -> three \cup {"content-type"} \cup rich
          [] v = "p2" /\ route = "series" -> three \cup rich
          [] v \in {"p1b", "p1c"} /\ route = "series" -> three
          [] route = "segment" -> {}
          [] OTHER -> three \cup {"content-type"}

\* the handler sets Accept-Ranges: bytes when the upstream sent none
HasAcceptRangesShim(v, route) == v \in {"p1c", "p2"} /\ route \in {"movie", "series"}

\* the Content-Type a handler ends up with; ext is the requested container
ContentTypeOf(v, route, ext, up) ==
    LET ct == UpValue(up, "content-type")
    IN  CASE route = "segment" -> (IF ct # "" THEN ct ELSE "video/mp2t")
          [] v = "p1a" -> (IF ct = "" \/ ext = mkv THEN "video/mp4" ELSE ct)
          [] route = "movie" -> ct
          [] v = "p1b" -> (IF ext = mkv THEN "video/mp4"
                           ELSE IF ct # "" THEN ct ELSE "video/mp4")
          [] OTHER -> (IF ext = mkv THEN "video/mp4"
                       ELSE IF ext = m3u8 THEN "application/x-mpegURL"
                       ELSE IF ct # "" THEN ct ELSE "video/mp4")

\* the headers set between res.status(...) and response.data.pipe(res)
StreamHeaders(v, route, ext, up) ==
    [h \in ResHeaderNames |->
        CASE h = "content-type" -> ContentTypeOf(v, route, ext, up)
          [] h = "accept-ranges" ->
                (IF h \in ForwardList(v, route) /\ UpValue(up, h) # "" THEN UpValue(up, h)
                 ELSE IF HasAcceptRangesShim(v, route) THEN "bytes" ELSE "")
          [] h = "access-control-allow-origin" -> (IF route = "segment" THEN "*" ELSE "")
          [] h = "cache-control" /\ route = "segment" -> "no-cache"
          [] OTHER -> (IF h \in ForwardList(v, route) THEN UpValue(up, h) ELSE "")]

\* the User-Agent each handler sends upstream
UserAgent(v, route) ==
    IF v = "p1a" \/ (v = "p2" /\ route = "movie")
    THEN "VLC/3.0.18" ELSE "VLC/3.0.18 LibVLC/3.0.18"

\* the headers of the upstream GET; the segment route forwards no Range
UpstreamRequest(v, route, range) ==
    [ua |-> UserAgent(v, route), accept |-> "*/*",
     range |-> IF route # "segment" /\ range # "" THEN range ELSE ""]

NoUpstreamRequest == [ua |-> "", accept |-> "", range |-> ""]

(***************************************************************************)
(* Request / response state                                                *)
(***************************************************************************)
NewReq ==
    [pc |-> "Idle", route |-> "none",
     rawId |-> UNDEF, rawExt |-> UNDEF, segUrl |-> UNDEF, range |-> "",
     streamId |-> NULL, extension |-> UNDEF,
     upUrl |-> NoUrl, upReq |-> NoUpstreamRequest, gets |-> 0, redirects |-> 0, upStatus |-> 0,
     resHeaders |-> NoHeaders,
     closeListener |-> FALSE, errorListener |-> FALSE,
     clientClosed |-> FALSE, closePhase |-> "none",
     statusCode |-> 200, body |-> "none", location |-> NoUrl,
     statusWrites |-> 0, commits |-> 0,
     headersSent |-> FALSE, writableEnded |-> FALSE, resDestroyed |-> FALSE,
     upDestroyed |-> FALSE, destroys |-> 0, upEnded |-> FALSE,
     paused |-> FALSE, chunks |-> 0, bytes |-> <<>>, errAfterHeaders |-> FALSE]

\* res.status(status) followed by .json(...) or .end(): the response is
\* written and finished
Respond(q, status, body) ==
    [q EXCEPT !.statusCode = status, !.body = body,
              !.statusWrites = @ + 1, !.commits = @ + 1,
              !.headersSent = TRUE, !.writableEnded = TRUE]

sendError(q, status) ==
    IF ~q.headersSent THEN Respond(q, status, "envelope") ELSE q

\* res.redirect(url): 302, Location and a body that repeats the URL
redirect(q, url) ==
    [Respond(q, 302, "redirect") EXCEPT !.location = url, !.pc = "Redirected"]

\* a catch block that issues the GET again, up to three times
Catch_retry(v, q) ==
    IF q.gets < 3
    THEN [q EXCEPT !.gets = @ + 1, !.pc = "UpstreamRequested"]
    ELSE [sendError(q, 500) EXCEPT !.pc = "RequestFailed"]

\* the catch block of a relay handler
Catch(v, q) ==
    [(IF q.route = "segment"
      THEN IF ~q.headersSent THEN Respond(q, 500, "empty") ELSE q
      ELSE IF v = "p2"
      THEN IF ~q.headersSent THEN Respond(q, 500, "envelopeMsg") ELSE q
      ELSE sendError(q, 500))
     EXCEPT !.pc = "RequestFailed"]

\* a rejected id: sendError(res, 400, ...) and return
Reject(q) == [sendError(q, 400) EXCEPT !.pc = "RequestFailed"]

\* axios(...) is called: the upstream GET is on its way
IssueGet(v, q, url) ==
    [q EXCEPT !.upUrl = url, !.upReq = UpstreamRequest(v, q.route, q.range),
              !.gets = @ + 1, !.pc = "UpstreamRequested"]

\* maxRedirects: 5 on the live-segment call, and the HTTP client's default on
\* the movie and series calls
maxRedirects == 5

\* the upstream answers 3xx with a Location: the HTTP client issues a GET
\* for the new location inside the same awaited call
FollowRedirect(q) == [q EXCEPT !.gets = @ + 1, !.redirects = @ + 1]

\* a destroy whose 'error' event is answered with a 500 whatever was sent
destroy_reported(q) ==
    IF q.upDestroyed THEN q
    ELSE [q EXCEPT !.upDestroyed = TRUE, !.destroys = @ + 1,
                   !.statusCode = 500, !.body = "empty", !.writableEnded = TRUE]

\* response.data.destroy(): the destroy hook runs once per stream
destroy(q) ==
    IF q.upDestroyed THEN q
    ELSE [q EXCEPT !.upDestroyed = TRUE, !.destroys = @ + 1]

(***************************************************************************)
(* Handlers, up to their first await                                       *)
(***************************************************************************)
\* app.get('/stream/:id(\\d+)') and, in part_002, app.get('/stream/:id')
MovieHandler(v, c, q) ==
    LET streamId == IF v = "p2" THEN q.rawId ELSE sanitizeId(q.rawId)
        extension == IF v = "p2"
                     THEN (IF Falsy(q.rawExt) THEN mp4 ELSE q.rawExt)
                     ELSE sanitizeExtension(q.rawExt)
        q1 == [q EXCEPT !.streamId = streamId, !.extension = extension]
        url == buildMovieUrl(v, c, streamId, extension)
    IN  IF streamId = NULL THEN Reject(q1)
        ELSE IF v = "idx" THEN redirect(q1, url)
        ELSE IF v = "p0" THEN redirect(q1, toHttps(url))
        ELSE IssueGet(v, q1, url)

\* app.get('/stream/series/:id/:extension')
SeriesHandler(v, c, q) ==
    LET episodeId == IF v = "p2" THEN q.rawId ELSE sanitizeId(q.rawId)
        extension == IF v = "p2" THEN q.rawExt ELSE sanitizeExtension(q.rawExt)
        q1 == [q EXCEPT !.streamId = episodeId, !.extension = extension]
        url == buildSeriesUrl(v, c, episodeId, extension)
    IN  IF episodeId = NULL THEN Reject(q1)
        ELSE IF v = "idx" THEN redirect(q1, url)
        ELSE IF v = "p0" THEN redirect(q1, toHttps(url))
        ELSE IssueGet(v, q1, url)

\* app.use((err, req, res, next) => res.status(500).json(...)): the answer
\* to an exception thrown by a synchronous handler, here by new URL(serverUrl)
ErrorMiddleware(v, q) ==
    [Respond(q, 500, IF v \in {"idx", "p1a"} THEN "errorOnly" ELSE "envelope")
     EXCEPT !.pc = "RequestFailed"]

\* app.get('/stream/live/:id(\\d+)') and, in part_002, app.get('/stream/live/:id')
LiveHandler(v, c, q) ==
    LET streamId == IF v = "p2" THEN q.rawId ELSE sanitizeId(q.rawId)
        q1 == [q EXCEPT !.streamId = streamId, !.extension = m3u8]
        liveUrl == buildLiveUrl(v, c, streamId)
    IN  IF streamId = NULL THEN Reject(q1)
        ELSE IF v # "p2" /\ ~WellFormed(c.serverUrl) THEN ErrorMiddleware(v, q1)
        ELSE IF v = "p0" THEN redirect(q1, toHttps(liveUrl))
        ELSE redirect(q1, liveUrl)

\* app.get('/stream/live-segment')
SegmentHandler(v, q) ==
    IF Falsy(q.segUrl) \/ ~ParsesAsUrl(q.segUrl)
    THEN [Respond(q, 400, "empty") EXCEPT !.pc = "RequestFailed"]
    ELSE [q EXCEPT !.upReq = UpstreamRequest(v, q.route, q.range),
                   !.gets = @ + 1, !.pc = "UpstreamRequested"]

\* segmentUrl.substring(...) on a value that is not a string throws outside
\* every try block, so the async handler's promise rejects.  The routing
\* library either drops the rejection, leaving the request unanswered (the
\* unhandledRejection hook only logs), or hands it to the error middleware.
SegmentThrows(q) == ~Falsy(q.segUrl) /\ IsArray(q.segUrl)

SegmentOutcomes(v, q) ==
    IF SegmentThrows(q)
    THEN {[q EXCEPT !.pc = "HandlerThrew"],
          [Respond(q, 500, "envelope") EXCEPT !.pc = "RequestFailed"]}
    ELSE {SegmentHandler(v, q)}

\* no /stream route matches: the 404 middleware answers
NotFound(q) == [Respond(q, 404, "notFound") EXCEPT !.pc = "NotFound"]

Dispatch(v, c, q) ==
    IF ~RouteMatches(v, q.route, q.rawId) THEN NotFound(q)
    ELSE CASE q.route = "movie" -> MovieHandler(v, c, q)
           [] q.route = "series" -> SeriesHandler(v, c, q)
           [] q.route = "live" -> LiveHandler(v, c, q)
           [] q.route = "segment" -> SegmentHandler(v, q)

(***************************************************************************)
(* Handlers, after the await                                               *)
(***************************************************************************)
\* res.status(...), the header policy, response.data.pipe(res) and the two
\* listeners, all in one synchronous run
StartStreaming(v, q, s, up) ==
    [q EXCEPT !.upStatus = s,
              !.statusCode = IF q.route = "segment" THEN @ ELSE s,
              !.statusWrites = IF q.route = "segment" THEN @ ELSE @ + 1,
              !.resHeaders = StreamHeaders(v, q.route, ToLowerCase(q.extension), up),
              !.errorListener = HasErrorListener(v, q.route),
              !.closeListener = TRUE,
              !.pc = "Streaming"]

\* response.data.on('error', () => { if (!res.headersSent) res.status(500).end(); })
OnUpstreamError(q) ==
    IF ~q.headersSent THEN Respond(q, 500, "empty") ELSE q

\* the upstream resource whose bytes response.data delivers
SourceOf(q) == IF q.route = "segment" THEN q.segUrl ELSE q.upUrl.file.id

\* one chunk travels from response.data to res
Piped(q) ==
    IF q.resDestroyed
    THEN [q EXCEPT !.paused = TRUE]
    ELSE [q EXCEPT !.headersSent = TRUE, !.body = "bytes", !.chunks = @ + 1,
                   !.commits = IF q.headersSent THEN @ ELSE @ + 1,
                   !.bytes = Append(@, SourceOf(q))]

\* a close listener that also reports the abort as an error
OnClientClose_reports(q) ==
    sendError(IF ~q.writableEnded THEN destroy(q) ELSE q, 500)

\* a close listener with the guard inverted
OnClientClose_inverted(q) ==
    IF q.writableEnded THEN destroy(q) ELSE q

\* req.on('close', () => { if (!res.writableEnded) response.data.destroy(); })
OnClientClose(q) ==
    IF ~q.writableEnded THEN destroy(q) ELSE q

\* a 'close' on every request: one stream handle shared by all handlers
Closed_shared(all, r) ==
    [x \in DOMAIN all |-> IF all[x].closeListener THEN destroy(all[x]) ELSE all[x]]

\* req of request r emits 'close': only the listener that handler r
\* registered on its own req runs, on its own response.data
Closed(all, r) ==
    [all EXCEPT ![r] = IF @.closeListener THEN OnClientClose(@) ELSE @]

(***************************************************************************)
(* Inputs                                                                  *)
(***************************************************************************)
ReqIdInputs ==
    (StringsUpTo({"7", "$"}, MaxShortLen) \ {<<>>})
        \cup {<<"a", "-">>, Rep("7", MaxIdLen + 1)}

ReqExtInputs == {UNDEF, mp4, mkv, m3u8, <<"M", "K", "V">>, <<"e", "x", "e">>}

SegUrlInputs == {UNDEF, BadSegUrl, RepeatedSegUrl, GoodSegUrl}

UpStatuses == {200, 206, 403, 404, 500, 502}

RangeInputs == {"", "bytes=1000-1999"}

\* with several requests in flight each asks for its own id
Concurrent == Cardinality(DOMAIN rq) > 1

IdInputsOf(r) == IF Concurrent THEN {OwnId(r)} ELSE ReqIdInputs

ExtInputsOf(route) ==
    IF Concurrent THEN {mp4}
    ELSE IF route = "series" THEN ReqExtInputs \ {UNDEF} ELSE ReqExtInputs

SegUrlInputsOf(r) == IF Concurrent THEN {GoodSegUrl \o OwnId(r)} ELSE SegUrlInputs

RangeInputsOf(r) == IF Concurrent THEN {""} ELSE RangeInputs

UpStatusesOf(r) == IF Concurrent THEN {200, 404} ELSE UpStatuses

UpHeaderSets == {{}, HeaderNames \ {"accept-ranges"}, HeaderNames}

(***************************************************************************)
(* Actions                                                                 *)
(***************************************************************************)
TypeOK ==
    /\ variant \in Variants
    /\ cfg \in Configs
    /\ upHeaders \subseteq HeaderNames
    /\ crashed \in BOOLEAN
    /\ DOMAIN rq \in {Reqs, ReqsIso}

(***************************************************************************)
(* The movies cache and the GET /api/movies requests that use it           *)
(***************************************************************************)
\* CACHE_CONFIG.duration / moviesCache.duration (3600000 ms), in clock ticks
duration == 2

\* movies: { data: null, timestamp: null }; a null timestamp counts as 0 in
\* (now - timestamp) and is falsy in (cache.timestamp && ...)
NoEntry == [data |-> NULL, timestamp |-> 0]

MovieReqs == {"g1", "g2"}

\* a GET /api/movies that has not arrived yet; preClear records that the cache
\* was cleared while this request's upstream call was outstanding
NewMovieReq ==
    [pc |-> "Idle", startedAt |-> 0, gets |-> 0, answer |-> "none",
     statusCode |-> 0, cached |-> FALSE, body |-> NULL, preClear |-> FALSE]

\* Date.now() starts at 1; the cache is empty and no request has arrived
NewCache == [now |-> 1, entry |-> NoEntry, req |-> [g \in MovieReqs |-> NewMovieReq]]

(***************************************************************************)
(* The browser pages: the series and live browsers, which issue a fetch    *)
(* per call, and the catalog and live controllers guarded by isLoading     *)
(***************************************************************************)
\* category ids offered by the server; 0 stands for null / nothing
Cats == {1, 2}

Sections == {"movies", "series"}

\* every element hidden
Hidden ==
    [welcome |-> FALSE, loading |-> FALSE, error |-> FALSE, categories |-> FALSE,
     list |-> FALSE, detail |-> FALSE]

\* loading.style.display = 'flex'; the error box and every section hidden
showLoading(shown) == [Hidden EXCEPT !.loading = TRUE]

\* series.js / the live page once DOMContentLoaded has called loadCategories():
\* empty lists, currentCategory = null, the categories fetch outstanding
NewPage(kind) ==
    [kind |-> kind, currentCategory |-> 0, categories |-> FALSE, list |-> 0,
     grid |-> 0, title |-> 0, seriesData |-> 0, detail |-> 0,
     shown |-> showLoading(Hidden),
     fetches |-> {[op |-> "cats", id |-> 0, n |-> 0]}, calls |-> 0]

\* currentCategory = null
NoCategory == [id |-> 0, section |-> "none"]

\* the controllers that guard their loads with isLoading: "catalog" starts on
\* the welcome state with nothing loading; "live" (player.js) has called
\* loadCategories() on DOMContentLoaded
NewController(kind) ==
    [kind |-> kind,
     isLoading |-> kind = "live",
     currentSection |-> "none",
     currentCategory |-> NoCategory,
     categoriesCache |-> {},
     contentCache |-> {},
     grid |-> "none",
     content |-> NoCategory,
     title |-> 0,
     gridTitle |-> "none",
     shown |-> IF kind = "live" THEN showLoading(Hidden)
               ELSE [Hidden EXCEPT !.welcome = TRUE],
     fetches |-> IF kind = "live"
                 THEN {[op |-> "cats", section |-> "live", id |-> 0, n |-> 0]}
                 ELSE {},
     started |-> 0,
     calls |-> 0]

Init ==
    /\ variant \in Variants
    /\ cfg \in Configs
    /\ Starts(variant, cfg)
    /\ upHeaders \in UpHeaderSets
    /\ rq = [r \in Reqs |-> NewReq]
    /\ crashed = FALSE
    /\ fn = [step |-> "off", id |-> UNDEF, ext |-> UNDEF, idOut |-> NULL, extOut |-> UNDEF]
    /\ mc = NewCache
    /\ ui = NewPage("series")
    /\ ctl = NewController("catalog")

\* a request arrives and its handler runs up to its first await
Receive(r) ==
    /\ r \in DOMAIN rq
    /\ ~crashed
    /\ rq[r].pc = "Idle"
    /\ \E route \in RoutesOf(variant), range \in RangeInputsOf(r) :
         \/ /\ route = "movie"
            /\ \E id \in IdInputsOf(r), ext \in ExtInputsOf(route) :
                 rq' = [rq EXCEPT ![r] =
                          Dispatch(variant, cfg,
                                   [@ EXCEPT !.route = route, !.range = range,
                                             !.rawId = id, !.rawExt = ext])]
         \/ /\ route = "series"
            /\ \E id \in IdInputsOf(r), ext \in ExtInputsOf(route) :
                 rq' = [rq EXCEPT ![r] =
                          Dispatch(variant, cfg,
                                   [@ EXCEPT !.route = route, !.range = range,
                                             !.rawId = id, !.rawExt = ext])]
         \/ /\ route = "live"
            /\ \E id \in IdInputsOf(r) :
                 rq' = [rq EXCEPT ![r] =
                          Dispatch(variant, cfg,
                                   [@ EXCEPT !.route = route, !.range = range, !.rawId = id])]
         \/ /\ route = "segment"
            /\ \E u \in SegUrlInputsOf(r) :
                 \E o \in SegmentOutcomes(variant,
                                          [rq[r] EXCEPT !.route = route, !.range = range,
                                                        !.segUrl = u]) :
                     rq' = [rq EXCEPT ![r] = o]
    /\ UNCHANGED <<variant, cfg, upHeaders, crashed, fn, mc, ui, ctl>>

\* the upstream answers with a status line and headers
UpstreamHeaders(r) ==
    /\ r \in DOMAIN rq
    /\ ~crashed
    /\ rq[r].pc = "UpstreamRequested"
    /\ \E s \in UpStatusesOf(r) :
         rq' = [rq EXCEPT ![r] =
                  IF validateStatus(@.route, s)
                  THEN StartStreaming(variant, @, s, upHeaders)
                  ELSE Catch(variant, [@ EXCEPT !.upStatus = s])]
    /\ UNCHANGED <<variant, cfg, upHeaders, crashed, fn, mc, ui, ctl>>

\* the upstream answers with a redirect, which the HTTP client follows
UpstreamRedirect(r) ==
    /\ r \in DOMAIN rq
    /\ ~crashed
    /\ rq[r].pc = "UpstreamRequested"
    /\ rq[r].redirects < maxRedirects
    /\ rq[r].redirects < MaxFollowed
    /\ rq' = [rq EXCEPT ![r] = FollowRedirect(@)]
    /\ UNCHANGED <<variant, cfg, upHeaders, crashed, fn, mc, ui, ctl>>

\* the upstream request fails before any header: unreachable, timeout, DNS
UpstreamFail(r) ==
    /\ r \in DOMAIN rq
    /\ ~crashed
    /\ rq[r].pc = "UpstreamRequested"
    /\ rq' = [rq EXCEPT ![r] = Catch(variant, @)]
    /\ UNCHANGED <<variant, cfg, upHeaders, crashed, fn, mc, ui, ctl>>

\* pipe: one chunk of the upstream body is written to res
Chunk(r) ==
    /\ r \in DOMAIN rq
    /\ ~crashed
    /\ rq[r].pc = "Streaming"
    /\ ~rq[r].upDestroyed /\ ~rq[r].upEnded /\ ~rq[r].paused
    /\ rq[r].chunks < MaxChunks
    /\ rq' = [rq EXCEPT ![r] = Piped(@)]
    /\ UNCHANGED <<variant, cfg, upHeaders, crashed, fn, mc, ui, ctl>>

\* pipe: the upstream body ends and res.end() is called
UpstreamEnd(r) ==
    /\ r \in DOMAIN rq
    /\ ~crashed
    /\ rq[r].pc = "Streaming"
    /\ ~rq[r].upDestroyed /\ ~rq[r].upEnded /\ ~rq[r].paused
    /\ rq' = [rq EXCEPT ![r] =
                [@ EXCEPT !.upEnded = TRUE, !.headersSent = TRUE,
                          !.commits = IF rq[r].headersSent THEN @ ELSE @ + 1,
                          !.writableEnded = TRUE, !.pc = "Completed"]]
    /\ UNCHANGED <<variant, cfg, upHeaders, crashed, fn, mc, ui, ctl>>

\* the upstream stream emits 'error' after the handler started streaming
UpstreamError(r) ==
    /\ r \in DOMAIN rq
    /\ ~crashed
    /\ rq[r].pc = "Streaming"
    /\ ~rq[r].upDestroyed /\ ~rq[r].upEnded
    /\ LET q == [destroy(rq[r]) EXCEPT !.pc = "UpstreamErrored",
                                       !.errAfterHeaders = rq[r].headersSent]
       IN  IF q.errorListener
           THEN /\ rq' = [rq EXCEPT ![r] = OnUpstreamError(q)]
                /\ crashed' = crashed
           ELSE \* no listener: a listener of the HTTP library swallows the
                \* event, or the process dies of the unhandled 'error'
                /\ rq' = [rq EXCEPT ![r] = q]
                /\ crashed' \in BOOLEAN
    /\ UNCHANGED <<variant, cfg, upHeaders, fn, mc, ui, ctl>>

\* the client connection closes and req emits 'close'
ClientClose(r) ==
    /\ r \in DOMAIN rq
    /\ ~crashed
    /\ rq[r].pc \in {"UpstreamRequested", "Streaming", "UpstreamErrored", "Completed"}
    /\ ~rq[r].clientClosed
    /\ LET q == [rq[r] EXCEPT
                   !.clientClosed = TRUE, !.resDestroyed = TRUE,
                   !.closePhase = IF rq[r].pc = "UpstreamRequested" THEN "awaitingHeaders"
                                  ELSE IF rq[r].writableEnded THEN "afterEnd"
                                  ELSE IF rq[r].headersSent THEN "midBody"
                                  ELSE "beforeBody",
                   !.pc = IF @ = "Streaming" THEN "ClientAborted" ELSE @]
       IN  rq' = Closed([rq EXCEPT ![r] = q], r)
    /\ UNCHANGED <<variant, cfg, upHeaders, crashed, fn, mc, ui, ctl>>

Next ==
    \E r \in ReqsIso :
        \/ Receive(r)
        \/ UpstreamHeaders(r)
        \/ UpstreamRedirect(r)
        \/ UpstreamFail(r)
        \/ Chunk(r)
        \/ UpstreamEnd(r)
        \/ UpstreamError(r)
        \/ ClientClose(r)

Spec == Init /\ [][Next]_vars

(***************************************************************************)
(* Two requests at once                                                    *)
(***************************************************************************)
InitIso ==
    /\ variant \in {"p1a", "p1c", "p2"}
    /\ cfg = IPTV_CONFIG("http")
    /\ upHeaders = HeaderNames
    /\ rq = [r \in ReqsIso |-> NewReq]
    /\ crashed = FALSE
    /\ fn = [step |-> "off", id |-> UNDEF, ext |-> UNDEF, idOut |-> NULL, extOut |-> UNDEF]
    /\ mc = NewCache
    /\ ui = NewPage("series")
    /\ ctl = NewController("catalog")

SpecIso == InitIso /\ [][Next]_vars

(***************************************************************************)
(* The sanitizers on their own                                             *)
(***************************************************************************)
ToUpperChar(c) ==
    IF c \in {LowerSeq[i] : i \in 1..Len(LowerSeq)}
    THEN UpperSeq[CHOOSE i \in 1..Len(LowerSeq) : LowerSeq[i] = c]
    ELSE c

ToUpperCase(s) == [i \in 1..Len(s) |-> ToUpperChar(s[i])]

IdInputs ==
    {UNDEF}
        \cup StringsUpTo({"7", "a", "_", "$"}, MaxShortLen)
        \cup {Rep("7", n) : n \in {MaxIdLen - 1, MaxIdLen, MaxIdLen + 1}}
        \cup {Append(Rep("7", MaxIdLen), "$"), Append(Rep("a", MaxIdLen + 1), "$"),
              <<"$">> \o Rep("-", MaxIdLen)}

ExtInputs ==
    {UNDEF, <<>>}
        \cup allowed
        \cup {ToUpperCase(a) : a \in allowed}
        \cup {<<".">> \o a : a \in allowed}
        \cup {Append(a, "x") : a \in allowed}
        \cup {<<"e", "x", "e">>, <<"M", "p", "4">>, <<"m", "-", "k", "v">>, <<"$">>}

InitFn ==
    /\ variant = "p1c"
    /\ cfg = IPTV_CONFIG("http")
    /\ upHeaders = {}
    /\ rq = [r \in Reqs |-> NewReq]
    /\ crashed = FALSE
    /\ \E id \in IdInputs, ext \in ExtInputs :
         fn = [step |-> "input", id |-> id, ext |-> ext, idOut |-> NULL, extOut |-> UNDEF]
    /\ mc = NewCache
    /\ ui = NewPage("series")
    /\ ctl = NewController("catalog")

\* const streamId = sanitizeId(req.params.id)
ApplySanitizeId ==
    /\ fn.step = "input"
    /\ fn' = [fn EXCEPT !.step = "id", !.idOut = sanitizeId(fn.id)]
    /\ UNCHANGED <<variant, cfg, upHeaders, rq, crashed, mc, ui, ctl>>

\* const extension = sanitizeExtension(req.query.ext)
ApplySanitizeExtension ==
    /\ fn.step = "id"
    /\ fn' = [fn EXCEPT !.step = "done", !.extOut = sanitizeExtension(fn.ext)]
    /\ UNCHANGED <<variant, cfg, upHeaders, rq, crashed, mc, ui, ctl>>

NextFn == ApplySanitizeId \/ ApplySanitizeExtension

SpecFn == InitFn /\ [][NextFn]_vars

(***************************************************************************)
(* GET /api/movies and POST /api/cache/clear                               *)
(***************************************************************************)
MaxTime == 4

\* the movie lists the upstream may hold, as lists of stream ids
MovieLists == {<<>>, <<"m1">>, <<"m1", "m2">>}

\* what axios.get(get_vod_streams) can come back with: a JSON array, an array
\* with a null element, a truthy non-array (object or text), a falsy body
\* (null, empty text), or a rejection (network error, timeout, refused status)
Answers ==
    [kind : {"array"}, list : MovieLists]
        \cup [kind : {"badArray", "object", "falsy", "fail"}, list : {<<>>}]

\* function isCacheValid(cache): data && timestamp && (Date.now() - timestamp) < duration
isCacheValid(cache, t) ==
    /\ cache.data # NULL
    /\ cache.timestamp # 0
    /\ (t - cache.timestamp) < duration

\* part_002: moviesCache.data && (now - moviesCache.timestamp) < moviesCache.duration
moviesCacheValid(cache, t) ==
    /\ cache.data # NULL
    /\ (t - cache.timestamp) < duration

CacheHit(v, cache, t) ==
    IF v = "p2" THEN moviesCacheValid(cache, t) ELSE isCacheValid(cache, t)

\* res.json({ success: true, cached: ..., movies })
MoviesJson(q, isCached, movies) ==
    [q EXCEPT !.pc = "Done", !.statusCode = 200, !.cached = isCached, !.body = movies]

\* sendError(res, code, ...) / res.status(500).json(...)
MoviesError(q, code) ==
    [q EXCEPT !.pc = "Done", !.statusCode = code]

\* the handler up to its await: answer from the cache, or issue the upstream GET
MoviesGet(g) ==
    /\ variant \in {"p1c", "p2"}
    /\ mc.req[g].pc = "Idle"
    /\ LET q == [mc.req[g] EXCEPT !.startedAt = mc.now]
       IN  IF CacheHit(variant, mc.entry, mc.now)
           THEN mc' = [mc EXCEPT !.req[g] = MoviesJson(q, TRUE, mc.entry.data)]
           ELSE mc' = [mc EXCEPT !.req[g] = [q EXCEPT !.pc = "Fetching", !.gets = q.gets + 1]]
    /\ UNCHANGED <<variant, cfg, upHeaders, rq, crashed, fn, ui, ctl>>

\* the entry a handler of part_001 leaves behind and the answer it gives
\* (lines 876-897)
StoreP1c(q, a, t, entry) ==
    CASE a.kind = "fail" -> [entry |-> entry, req |-> MoviesError(q, 500)]
      [] a.kind \in {"object", "falsy"} -> [entry |-> entry, req |-> MoviesError(q, 502)]
      [] a.kind = "badArray" -> [entry |-> entry, req |-> MoviesError(q, 500)]
      [] OTHER -> [entry |-> [data |-> a.list, timestamp |-> t],
                   req |-> MoviesJson(q, FALSE, a.list)]

\* the same for part_002 (lines 63-70): (response.data || []).map(...), and
\* the timestamp is the `now` read before the await
StoreP2(q, a, entry) ==
    CASE a.kind \in {"fail", "object", "badArray"} ->
            [entry |-> entry, req |-> [MoviesError(q, 500) EXCEPT !.body = <<"message">>]]
      [] a.kind = "falsy" -> [entry |-> [data |-> <<>>, timestamp |-> q.startedAt],
                              req |-> MoviesJson(q, FALSE, <<>>)]
      [] OTHER -> [entry |-> [data |-> a.list, timestamp |-> q.startedAt],
                   req |-> MoviesJson(q, FALSE, a.list)]

\* the upstream call settles and the rest of the handler runs
MoviesAnswer(g) ==
    /\ mc.req[g].pc = "Fetching"
    /\ \E a \in Answers :
         LET q == [mc.req[g] EXCEPT !.answer = a.kind]
             out == IF variant = "p2" THEN StoreP2(q, a, mc.entry)
                    ELSE StoreP1c(q, a, mc.now, mc.entry)
         IN  mc' = [mc EXCEPT !.entry = out.entry, !.req[g] = out.req]
    /\ UNCHANGED <<variant, cfg, upHeaders, rq, crashed, fn, ui, ctl>>

\* app.post('/api/cache/clear'): the entry is emptied and the answer sent;
\* every fetch outstanding at this moment is a pre-clear fetch from now on
CacheClear ==
    /\ variant \in {"p1c", "p2"}
    /\ mc' = [mc EXCEPT !.entry = NoEntry,
                        !.req = [g \in MovieReqs |->
                                   IF mc.req[g].pc = "Fetching"
                                   THEN [mc.req[g] EXCEPT !.preClear = TRUE]
                                   ELSE mc.req[g]]]
    /\ UNCHANGED <<variant, cfg, upHeaders, rq, crashed, fn, ui, ctl>>

\* the clock advances
Tick ==
    /\ mc.now < MaxTime
    /\ mc' = [mc EXCEPT !.now = mc.now + 1]
    /\ UNCHANGED <<variant, cfg, upHeaders, rq, crashed, fn, ui, ctl>>

NextCache ==
    \/ \E g \in MovieReqs : MoviesGet(g)
    \/ \E g \in MovieReqs : MoviesAnswer(g)
    \/ CacheClear
    \/ Tick

InitCache ==
    /\ variant \in {"p1c", "p2"}
    /\ cfg = IPTV_CONFIG("http")
    /\ upHeaders = {}
    /\ rq = [r \in Reqs |-> NewReq]
    /\ crashed = FALSE
    /\ fn = [step |-> "off", id |-> UNDEF, ext |-> UNDEF, idOut |-> NULL, extOut |-> UNDEF]
    /\ mc = NewCache
    /\ ui = NewPage("series")
    /\ ctl = NewController("catalog")

SpecCache == InitCache /\ [][NextCache]_vars

(***************************************************************************)
(* Properties                                                              *)
(***************************************************************************)
\* the spec's id pattern ^[A-Za-z0-9_-]{1,50}$
MatchesIdPattern(id) ==
    /\ id # UNDEF
    /\ Len(id) >= 1 /\ Len(id) <= 50
    /\ \A i \in 1..Len(id) : id[i] \in IdChars

\* the handler holds an upstream response stream
HasStream(q) == q.pc \in {"Streaming", "ClientAborted", "UpstreamErrored", "Completed"}

\* the URL a request was relayed or redirected to
TargetUrl(q) == IF q.location # NoUrl THEN q.location ELSE q.upUrl

\* C1: once the client connection has closed while the upstream GET was
\* out and the upstream stream had not ended, the upstream stream is
\* destroyed, wherever the close fell (also during the wait for the headers).
C1_CloseTerminatesUpstream ==
    \A r \in Reqs :
        (rq[r].clientClosed /\ rq[r].closePhase # "afterEnd"
            /\ HasStream(rq[r]) /\ ~rq[r].upEnded)
        => rq[r].upDestroyed

\* C2: a client abort after the response headers went out and before the
\* body completed leaves the upstream stream's destroy hook fired exactly once.
C2_AbortDestroysOnce ==
    \A r \in Reqs : rq[r].closePhase = "midBody" => rq[r].destroys = 1

C2_Witness ==
    \E r \in Reqs :
        /\ rq[r].closePhase = "midBody" /\ rq[r].pc = "ClientAborted"
        /\ rq[r].chunks >= 1 /\ rq[r].destroys = 1

\* C3: after an upstream error that follows the response headers the relay
\* has terminated the response (ended or destroyed it) and has written no
\* JSON error; the request is not left open.
C3_MidStreamErrorTerminates ==
    \A r \in Reqs :
        (rq[r].pc = "UpstreamErrored" /\ rq[r].errAfterHeaders)
        => /\ rq[r].writableEnded \/ rq[r].resDestroyed \/ crashed
           /\ rq[r].body \notin {"envelope", "envelopeMsg"}

\* C4: no response carries the provider username or password, in its
\* Location header or anywhere else.
C4_NoCredentialsInResponse ==
    \A r \in Reqs : CredsIn(rq[r].location) = {}

\* C5: a handled playback request whose raw id does not match the id pattern
\* is answered 400, with no upstream GET and no redirect.
C5_InvalidIdRejectedLocally ==
    \A r \in Reqs :
        (rq[r].pc \notin {"Idle", "NotFound"}
            /\ rq[r].route \in {"movie", "series", "live"}
            /\ ~MatchesIdPattern(rq[r].rawId))
        => /\ rq[r].statusCode = 400
           /\ rq[r].gets = 0
           /\ rq[r].location = NoUrl

\* the number of characters of id that the id pattern allows
AllowedCount(id) == Cardinality({i \in 1..Len(id) : id[i] \in IdChars})

\* the position in id of its k-th allowed character
KthAllowed(id, k) ==
    CHOOSE i \in 1..Len(id) :
        id[i] \in IdChars /\ Cardinality({j \in 1..i : id[j] \in IdChars}) = k

Spells(ext, a) ==
    /\ ext # UNDEF
    /\ LET kept == SelectSeq(ext, LAMBDA c : c \in LowerChars \cup UpperChars \cup DigitChars)
       IN  /\ Len(kept) = Len(a)
           /\ \A i \in 1..Len(a) : ToLowerChar(kept[i]) = a[i]

\* C7 as stated: sanitizeExtension returns a supported extension, and mp4 for
\* every input that is not itself one of the five.
C7_UnsupportedIsMp4 ==
    fn.step = "done"
    => /\ fn.extOut \in allowed
       /\ fn.ext \notin allowed => fn.extOut = mp4

\* C7 amended: sanitizeExtension returns a supported extension; it returns
\* the supported extension that the input spells once letter case and every
\* character other than a letter or digit are ignored, and mp4 when the
\* input spells none (missing and empty input included).
C7_NormalisedOrMp4 ==
    fn.step = "done"
    => /\ fn.extOut \in allowed
       /\ \A a \in allowed : Spells(fn.ext, a) => fn.extOut = a
       /\ (\A a \in allowed : ~Spells(fn.ext, a)) => fn.extOut = mp4

C7_Witness ==
    /\ fn.step = "done"
    /\ fn.ext \notin allowed /\ ~Falsy(fn.ext)
    /\ fn.extOut = mkv

\* C8: for a valid id the movie and series URL is
\* {base}/movie|series/{user}/{pass}/{id}.{sanitizeExtension(extension)},
\* and the live URL ends in {id}.m3u8.
C8_LocatorUrl ==
    \A r \in Reqs :
        (rq[r].pc \notin {"Idle", "NotFound"} /\ MatchesIdPattern(rq[r].rawId))
        => /\ rq[r].route \in {"movie", "series"}
                => TargetUrl(rq[r]) =
                     UnderServerUrl(cfg, rq[r].route, rq[r].rawId,
                                    sanitizeExtension(rq[r].rawExt))
           /\ rq[r].route = "live"
                => TargetUrl(rq[r]).file = File(rq[r].rawId, m3u8)

\* C9: no movie or series request is answered with a redirect.
C9_VodNeverRedirects ==
    \A r \in Reqs :
        rq[r].route \in {"movie", "series"}
        => /\ rq[r].statusCode \notin 300..399
           /\ rq[r].location = NoUrl

\* C10: an upstream request that failed before any response header is
\* answered 500 with a JSON error body and no upstream bytes.
C10_UpstreamFailureIs500Json ==
    \A r \in Reqs :
        (rq[r].pc = "RequestFailed" /\ rq[r].gets > 0 /\ rq[r].upStatus = 0)
        => /\ rq[r].statusCode = 500
           /\ rq[r].body \in {"envelope", "envelopeMsg"}
           /\ rq[r].chunks = 0

\* the names the header policy may copy from the upstream response
AllowList ==
    {"content-type", "content-length", "content-range", "accept-ranges",
     "cache-control", "last-modified", "etag"}

\* the upstream answered with a status line for this request
Answered(q) == q.upStatus > 0

\* the outbound status line and headers are on the wire
Committed(q) == HasStream(q) /\ q.headersSent

C12_StatusForwarded ==
    \A r \in Reqs :
        (Answered(rq[r]) /\ rq[r].upStatus < 500 /\ rq[r].headersSent)
        => rq[r].statusCode = rq[r].upStatus

\* C13: a request with a Range header whose upstream answers 206 with a
\* Content-Range is answered 206 with the same Content-Range and with
\* Accept-Ranges: bytes, on the movie and the series route.
C13_RangeRoundTrip ==
    \A r \in Reqs :
        (/\ rq[r].route \in {"movie", "series"}
         /\ rq[r].range # ""
         /\ rq[r].upStatus = 206
         /\ "content-range" \in upHeaders
         /\ "accept-ranges" \notin upHeaders
         /\ Committed(rq[r]))
        => /\ rq[r].statusCode = 206
           /\ rq[r].resHeaders["content-range"] = UpValue(upHeaders, "content-range")
           /\ rq[r].resHeaders["accept-ranges"] = "bytes"

\* C14: the upstream request carries a Range header exactly when the inbound
\* request does, with the same value, next to the handler's fixed User-Agent
\* and Accept: */*.
C14_RangeForwardedVerbatim ==
    \A r \in Reqs :
        rq[r].gets > 0
        => /\ rq[r].upReq.range = rq[r].range
           /\ rq[r].upReq.accept = "*/*"
           /\ rq[r].upReq.ua = UserAgent(variant, rq[r].route)

\* C15: every header of a streamed response whose value was copied from the
\* upstream response has a name in the allow-list, whatever the upstream sent.
C15_OnlyAllowListedHeaders ==
    \A r \in Reqs :
        HasStream(rq[r])
        => \A h \in ResHeaderNames :
              (h \in upHeaders /\ rq[r].resHeaders[h] = UpValue(upHeaders, h))
              => h \in AllowList

C15_Witness ==
    \E r \in Reqs :
        /\ Committed(rq[r])
        /\ "server" \in upHeaders
        /\ rq[r].resHeaders["content-length"] = UpValue(upHeaders, "content-length")
        /\ rq[r].resHeaders["server"] = ""

\* the container the request asked for, as the handler compares it
Container(q) == ToLowerCase(q.extension)

\* C16: on the relay routes, when the upstream omits content-type or the
\* requested container is mkv, the outbound Content-Type is video/mp4.
C16_ContentTypeOverride ==
    \A r \in Reqs :
        (/\ rq[r].route \in {"movie", "series"}
         /\ Committed(rq[r])
         /\ Container(rq[r]) # m3u8
         /\ ("content-type" \notin upHeaders \/ Container(rq[r]) = mkv))
        => rq[r].resHeaders["content-type"] = "video/mp4"

\* C17: when the requested extension is m3u8 the outbound Content-Type is
\* application/x-mpegURL whatever the upstream sent, on the movie route and
\* on the series route.
C17_M3u8ContentType ==
    \A r \in Reqs :
        (/\ rq[r].route \in {"movie", "series"}
         /\ Committed(rq[r])
         /\ Container(rq[r]) = m3u8)
        => rq[r].resHeaders["content-type"] = "application/x-mpegURL"

\* C18: a relayed response carries Accept-Ranges: bytes when the upstream
\* omitted accept-ranges and the upstream's value when it sent one, on every
\* relay route of every variant.
C18_AcceptRangesDefault ==
    \A r \in Reqs :
        Committed(rq[r])
        => rq[r].resHeaders["accept-ranges"] =
              (IF "accept-ranges" \in upHeaders
               THEN UpValue(upHeaders, "accept-ranges") ELSE "bytes")

\* C19: a live-segment request whose url parameter is missing or does not
\* parse as an absolute URL is answered 400, and no upstream GET is issued
\* for it.
C19_BadSegmentUrlIs400 ==
    \A r \in Reqs :
        (/\ rq[r].route = "segment"
         /\ (Falsy(rq[r].segUrl) \/ ~ParsesAsUrl(rq[r].segUrl)))
        => /\ rq[r].gets = 0
           /\ rq[r].statusCode = 400
           /\ rq[r].writableEnded

\* C20: every relay failure reported before any byte was committed is the
\* envelope {success: false, error: <string>} with status 400 or 500, on the
\* movie, series, live and live-segment routes.
C20_FailureEnvelope ==
    \A r \in Reqs :
        (rq[r].pc = "RequestFailed" /\ rq[r].chunks = 0)
        => /\ rq[r].statusCode \in {400, 500}
           /\ rq[r].body \in {"envelope", "envelopeMsg"}

\* the per-request states in which nothing more is to happen
Terminal == {"Completed", "ClientAborted", "UpstreamErrored", "RequestFailed"}

\* HeadersReceived is passed inside the step that takes UpstreamRequested to
\* Streaming: the code between the await and pipe runs without suspension
RelayTransitions ==
    {<<"Idle", "UpstreamRequested">>, <<"Idle", "RequestFailed">>,
     <<"UpstreamRequested", "Streaming">>, <<"UpstreamRequested", "RequestFailed">>,
     <<"Streaming", "Completed">>, <<"Streaming", "ClientAborted">>,
     <<"Streaming", "UpstreamErrored">>}

\* requests answered by a redirect or by the 404 middleware, and requests
\* whose handler threw before its first await, never enter the relay
Relayed(q) == q.pc \notin {"Redirected", "NotFound", "HandlerThrew"}

\* everything a handler writes to the client or does to the upstream
Writes(q) ==
    <<q.statusCode, q.body, q.resHeaders, q.chunks, q.headersSent, q.writableEnded,
      q.upReq, q.gets, q.destroys, q.upDestroyed>>

\* C21: a relay request only takes the transitions Idle -> UpstreamRequested
\* -> (HeadersReceived) -> Streaming -> Completed | ClientAborted |
\* UpstreamErrored, or Idle / UpstreamRequested -> RequestFailed; after a
\* terminal state nothing is written and nothing is done to the upstream.
C21_StateMachine ==
    [][\A r \in Reqs :
          /\ (rq'[r].pc # rq[r].pc /\ Relayed(rq'[r]))
                => <<rq[r].pc, rq'[r].pc>> \in RelayTransitions
          /\ rq[r].pc \in Terminal
                => /\ rq'[r].pc = rq[r].pc
                   /\ Writes(rq'[r]) = Writes(rq[r])]_vars

C21_Witness ==
    \E r \in Reqs :
        /\ rq[r].pc = "UpstreamErrored"
        /\ rq[r].clientClosed
        /\ rq[r].closePhase # "awaitingHeaders"
        /\ ~rq[r].writableEnded

\* the id a relayed request is fetching for
FetchedId(q) == IF q.route = "segment" THEN <<q.segUrl[Len(q.segUrl)]>> ELSE q.upUrl.file.id

\* the client received the upstream's status line, with or without a body
Delivered(q) == q.chunks >= 1 \/ q.pc = "Completed"

C24_ValidatedConfigOnly ==
    \A r \in Reqs :
        (rq[r].gets > 0 \/ rq[r].pc = "Redirected") => validateConfig(cfg)

\* what the relay has put on the client connection
ClientSide(q) ==
    <<q.statusCode, q.body, q.resHeaders, q.chunks, q.bytes, q.headersSent, q.writableEnded>>

\* C25: a client abort in mid-stream is cleanup only: the step of the abort
\* destroys the upstream stream and writes nothing, and from then on no
\* status, no JSON error and no body byte is written for that request and the
\* process does not die of an unhandled error.
C25_AbortIsCleanupOnly ==
    [][\A r \in Reqs :
          /\ (/\ rq[r].pc = "Streaming" /\ rq[r].headersSent
              /\ ~rq[r].clientClosed /\ rq'[r].clientClosed)
                => /\ rq'[r].pc = "ClientAborted"
                   /\ rq'[r].upDestroyed
                   /\ ClientSide(rq'[r]) = ClientSide(rq[r])
                   /\ ~crashed'
          /\ (rq[r].pc = "ClientAborted" /\ rq[r].closePhase = "midBody")
                => /\ rq'[r].pc = "ClientAborted"
                   /\ ClientSide(rq'[r]) = ClientSide(rq[r])
                   /\ rq'[r].destroys = rq[r].destroys
                   /\ ~crashed']_vars

C25_Witness ==
    \E r \in Reqs :
        /\ rq[r].pc = "ClientAborted" /\ rq[r].closePhase = "midBody"
        /\ rq[r].upDestroyed /\ ~rq[r].writableEnded
        /\ rq[r].body = "bytes" /\ rq[r].statusCode = rq[r].upStatus
        /\ ~crashed

\* C26: per request the status line and headers go out at most once, nothing
\* writes a second status or a JSON body once streaming has begun, and before
\* the headers go out at most one of the success path and the error path
\* writes a status.
C26_SingleCommit ==
    \A r \in Reqs :
        /\ rq[r].commits <= 1
        /\ rq[r].statusWrites <= 1

(***************************************************************************)
(* The series browser (series.js) and the live browser (part_003)          *)
(***************************************************************************)
MaxCalls == 3

SeriesIds == {1}

\* how a fetch can settle: a non-empty list / a record, success with nothing
\* in it, or a failure (rejected fetch, unparsable body, success: false)
Outcomes == {"ok", "empty", "fail"}

\* errorMsg.textContent = msg; loading hidden; the error box shown
showError(shown) == [shown EXCEPT !.loading = FALSE, !.error = TRUE]

showCategoriesSection(shown) ==
    [shown EXCEPT !.loading = FALSE, !.error = FALSE, !.categories = TRUE]

\* showSeriesListSection(name) / showChannelsSection(name), without the title
showSeriesListSection(shown) ==
    [shown EXCEPT !.loading = FALSE, !.error = FALSE, !.categories = FALSE, !.list = TRUE]

showSeriesDetailSection(shown) ==
    [shown EXCEPT !.loading = FALSE, !.error = FALSE, !.list = FALSE, !.detail = TRUE]

\* the "back to categories" button
showCategories(shown) ==
    [shown EXCEPT !.list = FALSE, !.detail = FALSE, !.categories = TRUE]

\* the "back to list" button
showSeriesList(shown) == [shown EXCEPT !.detail = FALSE, !.list = TRUE]

\* async function loadCategories(), up to its await
loadCategories(p) ==
    [p EXCEPT !.shown = showLoading(p.shown),
              !.fetches = p.fetches \cup {[op |-> "cats", id |-> 0, n |-> p.calls]}]

\* async function selectCategory(id, name), up to its await: currentCategory
\* is set, the loading state shown and the fetch issued; nothing is cancelled
selectCategory(p, id) ==
    [p EXCEPT !.currentCategory = id,
              !.shown = showLoading(p.shown),
              !.fetches = p.fetches \cup {[op |-> "list", id |-> id, n |-> p.calls + 1]},
              !.calls = p.calls + 1]

\* async function viewSeries(id), up to its await
viewSeries(p, id) ==
    [p EXCEPT !.shown = showLoading(p.shown),
              !.fetches = p.fetches \cup {[op |-> "detail", id |-> id, n |-> p.calls + 1]},
              !.calls = p.calls + 1]

\* the rest of loadCategories() once its fetch settles
CategoriesSettled(p, f, o) ==
    LET q == [p EXCEPT !.fetches = p.fetches \ {f}]
    IN  IF o = "ok"
        THEN [q EXCEPT !.categories = TRUE, !.shown = showCategoriesSection(q.shown)]
        ELSE [q EXCEPT !.shown = showError(q.shown)]

\* the rest of selectCategory(id, name) once its fetch settles: the list and
\* the title are those of this call's id and name
ListSettled(p, f, o) ==
    LET q == [p EXCEPT !.fetches = p.fetches \ {f}]
    IN  CASE o = "ok" -> [q EXCEPT !.list = f.id, !.grid = f.id, !.title = f.id,
                                   !.shown = showSeriesListSection(q.shown)]
          [] o = "empty" -> [q EXCEPT !.list = 0, !.shown = showError(q.shown)]
          [] OTHER -> [q EXCEPT !.shown = showError(q.shown)]

\* the rest of viewSeries(id) once its fetch settles
DetailSettled(p, f, o) ==
    LET q == [p EXCEPT !.fetches = p.fetches \ {f}]
    IN  CASE o = "ok" -> [q EXCEPT !.seriesData = f.id, !.detail = f.id,
                                   !.shown = showSeriesDetailSection(q.shown)]
          [] o = "empty" -> [q EXCEPT !.seriesData = 0, !.shown = showError(q.shown)]
          [] OTHER -> [q EXCEPT !.shown = showError(q.shown)]

\* window.selectCategory(id, name), the onclick of a rendered category card
SelectCategory(id) ==
    /\ ui.categories
    /\ ui.calls < MaxCalls
    /\ ui' = selectCategory(ui, id)
    /\ UNCHANGED <<variant, cfg, upHeaders, rq, crashed, fn, mc, ctl>>

\* window.viewSeries(id), the onclick of a rendered series card
ViewSeries(id) ==
    /\ ui.kind = "series"
    /\ ui.grid # 0
    /\ ui.calls < MaxCalls
    /\ ui' = viewSeries(ui, id)
    /\ UNCHANGED <<variant, cfg, upHeaders, rq, crashed, fn, mc, ctl>>

\* a fetch settles and the continuation of the call that issued it runs
FetchSettles(op) ==
    /\ \E f \in ui.fetches, o \in Outcomes :
         /\ f.op = op
         /\ ui' = CASE op = "cats" -> CategoriesSettled(ui, f, o)
                    [] op = "list" -> ListSettled(ui, f, o)
                    [] OTHER -> DetailSettled(ui, f, o)
    /\ UNCHANGED <<variant, cfg, upHeaders, rq, crashed, fn, mc, ctl>>

\* the back button of the list section
BackToCategories ==
    /\ ui.shown.list
    /\ ui' = [ui EXCEPT !.shown = showCategories(ui.shown)]
    /\ UNCHANGED <<variant, cfg, upHeaders, rq, crashed, fn, mc, ctl>>

\* the back button of the detail section
BackToList ==
    /\ ui.shown.detail
    /\ ui' = [ui EXCEPT !.shown = showSeriesList(ui.shown)]
    /\ UNCHANGED <<variant, cfg, upHeaders, rq, crashed, fn, mc, ctl>>

\* the retry button of the error box: series.js reloads the categories, the
\* live page selects currentCategory again when there is one
Retry ==
    /\ ui.shown.error
    /\ IF ui.kind = "live" /\ ui.currentCategory # 0
       THEN ui.calls < MaxCalls /\ ui' = selectCategory(ui, ui.currentCategory)
       ELSE ui' = loadCategories(ui)
    /\ UNCHANGED <<variant, cfg, upHeaders, rq, crashed, fn, mc, ctl>>

NextUi ==
    \/ \E id \in Cats : SelectCategory(id)
    \/ \E id \in SeriesIds : ViewSeries(id)
    \/ \E op \in {"cats", "list", "detail"} : FetchSettles(op)
    \/ BackToCategories
    \/ BackToList
    \/ Retry

InitUi ==
    /\ variant = "p1c"
    /\ cfg = IPTV_CONFIG("http")
    /\ upHeaders = {}
    /\ rq = [r \in Reqs |-> NewReq]
    /\ crashed = FALSE
    /\ fn = [step |-> "off", id |-> UNDEF, ext |-> UNDEF, idOut |-> NULL, extOut |-> UNDEF]
    /\ mc = NewCache
    /\ \E kind \in {"series", "live"} : ui = NewPage(kind)
    /\ ctl = NewController("catalog")

SpecUi == InitUi /\ [][NextUi]_vars

(***************************************************************************)
(* The controllers guarded by isLoading: the catalog (series.js 207-435)   *)
(* and the live browser of player.js                                       *)
(***************************************************************************)
\* showError(message) of both controllers: only the error box is shown
showErrorOnly == [Hidden EXCEPT !.error = TRUE]

\* showCategories(section) / showCategoriesSection(): only the categories
showCategoriesOnly == [Hidden EXCEPT !.categories = TRUE]

\* showContent(categoryName, section) / showChannelsSection(name)
showContent == [Hidden EXCEPT !.list = TRUE]

showWelcome == [Hidden EXCEPT !.welcome = TRUE]

\* a load that found isLoading false: isLoading = true, showLoading(), and the
\* fetch is issued
StartFetch(c, op, section, id) ==
    [c EXCEPT !.isLoading = TRUE,
              !.shown = showLoading(c.shown),
              !.fetches = c.fetches
                  \cup {[op |-> op, section |-> section, id |-> id, n |-> c.started + 1]},
              !.started = c.started + 1]

\* async function loadCategories(section) of the catalog, up to its await; a
\* cached section is rendered at once and isLoading reset before returning
loadCategoriesOf(c, section) ==
    IF c.isLoading THEN c
    ELSE IF section \in c.categoriesCache
    THEN [c EXCEPT !.grid = section, !.gridTitle = section,
                   !.shown = showCategoriesOnly, !.isLoading = FALSE]
    ELSE StartFetch(c, "cats", section, 0)

\* function selectSection(section): the section is recorded before the guard
selectSection(c, section) ==
    loadCategoriesOf([c EXCEPT !.currentSection = section,
                               !.currentCategory = NoCategory], section)

\* async function loadContent(section, categoryId, categoryName), up to its await
loadContent(c, section, id) ==
    IF c.isLoading THEN c
    ELSE LET d == [c EXCEPT !.currentCategory = [id |-> id, section |-> section]]
         IN  IF [id |-> id, section |-> section] \in c.contentCache
             THEN [d EXCEPT !.content = [id |-> id, section |-> section], !.title = id,
                            !.shown = showContent, !.isLoading = FALSE]
             ELSE StartFetch(d, "content", section, id)

\* function backToCategories()
backToCategories(c) ==
    IF c.currentSection # "none"
    THEN [c EXCEPT !.gridTitle = c.currentSection, !.shown = showCategoriesOnly]
    ELSE [c EXCEPT !.shown = showWelcome]

\* function retryLoad()
retryLoad(c) ==
    IF c.currentCategory # NoCategory
    THEN loadContent(c, c.currentCategory.section, c.currentCategory.id)
    ELSE IF c.currentSection # "none"
    THEN loadCategoriesOf(c, c.currentSection)
    ELSE [c EXCEPT !.shown = showWelcome]

\* player.js: async function loadCategories(), up to its await
playerLoadCategories(c) ==
    IF c.isLoading THEN c ELSE StartFetch(c, "cats", "live", 0)

\* player.js: async function selectCategory(id, name), up to its await; the
\* ids offered are clean, so sanitizeId(id) is the id
playerSelectCategory(c, id) ==
    IF id = 0 \/ c.isLoading THEN c
    ELSE StartFetch([c EXCEPT !.currentCategory = [id |-> id, section |-> "live"]],
                    "content", "live", id)

\* player.js: function showCategories(), the back button
playerShowCategories(c) ==
    [c EXCEPT !.currentCategory = NoCategory,
              !.shown = [c.shown EXCEPT !.list = FALSE, !.categories = TRUE]]

\* player.js: function retry()
playerRetry(c) ==
    IF c.currentCategory.id # 0
    THEN playerSelectCategory(c, c.currentCategory.id)
    ELSE playerLoadCategories(c)

\* the rest of a catalog load once its fetch settles; finally { isLoading = false }
CatalogSettled(c, f, o) ==
    LET q == [c EXCEPT !.fetches = c.fetches \ {f}, !.isLoading = FALSE]
    IN  IF o = "fail"
        THEN [q EXCEPT !.shown = showErrorOnly]
        ELSE IF f.op = "cats"
        THEN [q EXCEPT !.categoriesCache = q.categoriesCache \cup {f.section},
                       !.grid = f.section, !.gridTitle = f.section,
                       !.shown = showCategoriesOnly]
        ELSE [q EXCEPT !.contentCache = q.contentCache
                            \cup {[id |-> f.id, section |-> f.section]},
                       !.content = [id |-> f.id, section |-> f.section],
                       !.title = f.id,
                       !.shown = showContent]

\* the rest of a player.js load once safeFetch settles: an empty list is an
\* error, and showChannelsSection reads currentCategory.name when it runs
PlayerSettled(c, f, o) ==
    LET q == [c EXCEPT !.fetches = c.fetches \ {f}, !.isLoading = FALSE]
    IN  IF o # "ok"
        THEN [q EXCEPT !.shown = showErrorOnly]
        ELSE IF f.op = "cats"
        THEN [q EXCEPT !.grid = "live", !.gridTitle = "live", !.shown = showCategoriesOnly]
        ELSE IF q.currentCategory = NoCategory
        THEN [q EXCEPT !.content = [id |-> f.id, section |-> "live"],
                       !.shown = showErrorOnly]
        ELSE [q EXCEPT !.content = [id |-> f.id, section |-> "live"],
                       !.title = q.currentCategory.id,
                       !.shown = showContent]

\* a click on a navigation link or welcome button of the catalog
SelectSection(section) ==
    /\ ctl.kind = "catalog"
    /\ ctl.calls < MaxCalls
    /\ ctl' = [selectSection(ctl, section) EXCEPT !.calls = ctl.calls + 1]
    /\ UNCHANGED <<variant, cfg, upHeaders, rq, crashed, fn, mc, ui>>

\* the onclick of a rendered category card: loadContent with the section the
\* card was rendered for, or window.selectCategory of player.js
OpenCategory(id) ==
    /\ ctl.grid # "none"
    /\ ctl.calls < MaxCalls
    /\ ctl' = [(IF ctl.kind = "catalog" THEN loadContent(ctl, ctl.grid, id)
                ELSE playerSelectCategory(ctl, id))
               EXCEPT !.calls = ctl.calls + 1]
    /\ UNCHANGED <<variant, cfg, upHeaders, rq, crashed, fn, mc, ui>>

\* the back button of the content section
Back ==
    /\ ctl.shown.list
    /\ ctl' = IF ctl.kind = "catalog" THEN backToCategories(ctl)
              ELSE playerShowCategories(ctl)
    /\ UNCHANGED <<variant, cfg, upHeaders, rq, crashed, fn, mc, ui>>

\* the retry button of the error box
RetryLoad ==
    /\ ctl.shown.error
    /\ ctl.calls < MaxCalls
    /\ ctl' = [(IF ctl.kind = "catalog" THEN retryLoad(ctl) ELSE playerRetry(ctl))
               EXCEPT !.calls = ctl.calls + 1]
    /\ UNCHANGED <<variant, cfg, upHeaders, rq, crashed, fn, mc, ui>>

\* a fetch settles and the continuation of the load that issued it runs
LoadSettles(op) ==
    /\ \E f \in ctl.fetches, o \in Outcomes :
         /\ f.op = op
         /\ ctl' = IF ctl.kind = "catalog" THEN CatalogSettled(ctl, f, o)
                   ELSE PlayerSettled(ctl, f, o)
    /\ UNCHANGED <<variant, cfg, upHeaders, rq, crashed, fn, mc, ui>>

NextCtl ==
    \/ \E section \in Sections : SelectSection(section)
    \/ \E id \in Cats : OpenCategory(id)
    \/ Back
    \/ RetryLoad
    \/ \E op \in {"cats", "content"} : LoadSettles(op)

InitCtl ==
    /\ variant = "p1c"
    /\ cfg = IPTV_CONFIG("http")
    /\ upHeaders = {}
    /\ rq = [r \in Reqs |-> NewReq]
    /\ crashed = FALSE
    /\ fn = [step |-> "off", id |-> UNDEF, ext |-> UNDEF, idOut |-> NULL, extOut |-> UNDEF]
    /\ mc = NewCache
    /\ ui = NewPage("series")
    /\ \E kind \in {"catalog", "live"} : ctl = NewController(kind)

SpecCtl == InitCtl /\ [][NextCtl]_vars

(***************************************************************************)
(* The movies cache                                                        *)
(***************************************************************************)
\* the entry holds data whose age is strictly less than the duration
Fresh(entry, t) == entry.data # NULL /\ (t - entry.timestamp) < duration

\* C27: GET /api/movies answers from the cache, with no upstream request,
\* exactly when the entry holds data younger than the duration; otherwise it
\* makes exactly one upstream request, and when that request settles the
\* entry becomes the new list with the current time if the answer was an
\* array and is left as it was for every other answer
C27_CacheServesFreshOnly ==
    [][\A g \in MovieReqs :
         LET q == mc.req[g]
             q2 == mc'.req[g]
         IN  /\ (q.pc = "Idle" /\ q2.pc # "Idle") =>
                    IF Fresh(mc.entry, mc.now)
                    THEN /\ q2.pc = "Done" /\ q2.cached /\ q2.gets = 0
                         /\ q2.body = mc.entry.data
                         /\ mc'.entry = mc.entry
                    ELSE /\ q2.pc = "Fetching" /\ q2.gets = 1
                         /\ mc'.entry = mc.entry
             /\ (q.pc = "Fetching" /\ q2.pc = "Done") =>
                    /\ q2.gets = 1
                    /\ IF q2.answer = "array"
                       THEN mc'.entry = [data |-> q2.body, timestamp |-> mc.now]
                       ELSE mc'.entry = mc.entry]_vars

\* C28: an upstream fetch that was outstanding when POST /api/cache/clear
\* returned does not write the movies entry when it settles
C28_PreClearFetchDoesNotRepopulate ==
    [][\A g \in MovieReqs :
         (mc.req[g].pc = "Fetching" /\ mc.req[g].preClear /\ mc'.req[g].pc = "Done")
             => mc'.entry = mc.entry]_vars

(***************************************************************************)
(* The series and live browsers                                            *)
(***************************************************************************)
\* the fetch was issued by a call that a later selectCategory / viewSeries
\* call has superseded
Superseded(f) == f.op \in {"list", "detail"} /\ f.n < ui.calls

\* C29: when selectCategory or viewSeries has been called again while an
\* earlier call's fetch is outstanding, the earlier call's response changes
\* neither the rendered list and its title nor the detail view, nor which of
\* the two sections is shown, whenever it arrives
C29_LateResponseDoesNotOverwrite ==
    [][\A f \in ui.fetches :
         (Superseded(f) /\ f \notin ui'.fetches) =>
             /\ ui'.grid = ui.grid
             /\ ui'.title = ui.title
             /\ ui'.detail = ui.detail
             /\ ui'.shown.list = ui.shown.list
             /\ ui'.shown.detail = ui.shown.detail]_vars

(***************************************************************************)
(* The guarded controllers                                                 *)
(***************************************************************************)
\* at most one fetch is outstanding, and isLoading is raised exactly while
\* one is: a load asked for meanwhile started none, and every outcome of a
\* load lowered the flag again
MutualExclusion ==
    /\ Cardinality(ctl.fetches) <= 1
    /\ ctl.isLoading <=> ctl.fetches # {}

\* what is recorded as current is what is on display
CurrentIsDisplayed ==
    /\ ctl.shown.categories =>
           ctl.grid = (IF ctl.kind = "catalog" THEN ctl.currentSection ELSE "live")
    /\ ctl.shown.list =>
           /\ ctl.content = ctl.currentCategory
           /\ ctl.title = ctl.currentCategory.id
           /\ ctl.kind = "catalog" => ctl.content.section = ctl.currentSection

\* C30: isLoading enforces mutual exclusion between loads and is false again
\* after every load outcome, and once loading has ended the section and the
\* category recorded as current are the ones whose data is displayed
C30_GuardedLoads ==
    /\ MutualExclusion
    /\ ~ctl.isLoading => CurrentIsDisplayed

====
